---- MODULE Spec2Model ----
(***************************************************************************)
(* Model of ambianic's FallDetector pipe element                           *)
(* (src/ambianic/pipeline/ai/fall_detect.py).                              *)
(*                                                                         *)
(* Units: time is in whole seconds of time.monotonic(); keypoint and pose  *)
(* scores are in thousandths (0.6 is 600); angles are in thousandths of a  *)
(* degree (60 degrees is 60000).                                           *)
(***************************************************************************)
EXTENDS Integers, Sequences, FiniteSets, TLC

VARIABLES
    clock,                 \* the value time.monotonic() returns when read
    confidence_threshold,  \* FallDetector.confidence_threshold (configuration)
    prev_data,             \* FallDetector._prev_data: <<slot t-2, slot t-1>>
    image,                 \* sample['image'] of the sample being processed
    yielded,               \* what process_sample yielded for that sample
    inference_result,      \* value returned by fall_detect (first component)
    thumbnail,             \* value returned by fall_detect (second component)
    pose_engine_calls,     \* rotations passed to DetectPosesInImage in that call
    applied,               \* a method called on its own: name, arguments, result
    server                 \* the AmbianicServer, its start() calls and its servers

vars == <<clock, confidence_threshold, prev_data, image, yielded,
          inference_result, thumbnail, pose_engine_calls, applied, server>>

----------------------------------------------------------------------------
(* Bounds of the model *)

\* time.monotonic() is explored up to this many seconds after construction
MaxTime == 11

\* the coordinates of the end points of the lines calculate_angle is called
\* with on its own are 0 .. MaxCoord
MaxCoord == 2

\* an iteration of the server's watchdog loop is held up by at most this
\* many half seconds
MaxStall == 10

----------------------------------------------------------------------------
(* Constants of FallDetector.__init__ *)

LEFT_SHOULDER == "left shoulder"
LEFT_HIP == "left hip"
RIGHT_SHOULDER == "right shoulder"
RIGHT_HIP == "right hip"

fall_detect_corr == {LEFT_SHOULDER, LEFT_HIP, RIGHT_SHOULDER, RIGHT_HIP}

\* self._fall_factor = 60 (degrees)
fall_factor == 60000

min_time_between_frames == 1
max_time_between_frames == 10

\* Python's None where an angle (a float) is expected
None == -1

\* Python's None where a thumbnail or an image is expected
NoneImage == "None"

\* Python truth value of a float-or-None: None and 0.0 are false
Truthy(v) == v # None /\ v # 0

\* PIL transpose constants; NO_ROTATION is the initial angle = 0
NO_ROTATION == "0"
ROTATE_90 == "ROTATE_90"
ROTATE_270 == "ROTATE_270"

\* what the two transposes do to the image (comments of lines 169 and 177)
CounterClockwise90 == ROTATE_90
Clockwise90 == ROTATE_270

\* the empty dict {} (a dict is a function from its keys)
EmptyDict == [k \in {} |-> <<0, 0>>]

\* the record both history slots hold after construction (_dix)
InitialRecord ==
    [pose_dix |-> EmptyDict,
     timestamp |-> 0,
     thumbnail |-> NoneImage,
     left_angle_with_yaxis |-> None,
     right_angle_with_yaxis |-> None,
     body_vector_score |-> 0]

----------------------------------------------------------------------------
(* The pose engine and the camera: a catalogue of images, each with the    *)
(* poses PoseEngine.DetectPosesInImage finds in it as given and after      *)
(* each transpose.  The engine and PIL are collaborators outside src/.     *)

\* thumbnail.size and the engine's tensor height
width == 8
height == 6
tensor_image_height == 6

Keypoint(score, x, y) == [score |-> score, yx |-> <<x, y>>]

\* a Pose of the engine: keypoints by name (only the four this code reads)
Pose(ls, lh, rs, rh) ==
    [keypoints |-> (LEFT_SHOULDER :> ls) @@ (LEFT_HIP :> lh) @@
                   (RIGHT_SHOULDER :> rs) @@ (RIGHT_HIP :> rh)]

\* both body lines exactly vertical, head up
PoseUprightVertical(s) ==
    Pose(Keypoint(s, 3, 1), Keypoint(s, 3, 5), Keypoint(s, 5, 1), Keypoint(s, 5, 5))
\* both body lines about 9.5 degrees off the vertical
PoseUprightTilted(s) ==
    Pose(Keypoint(s, 4, 0), Keypoint(s, 3, 6), Keypoint(s, 6, 0), Keypoint(s, 5, 6))
\* both body lines exactly horizontal
PoseFlat(sl, sr) ==
    Pose(Keypoint(sl, 1, 3), Keypoint(sl, 7, 3), Keypoint(sr, 1, 4), Keypoint(sr, 7, 4))
\* both body lines about 80.5 degrees off the vertical
PoseNearlyFlat(s) ==
    Pose(Keypoint(s, 7, 2), Keypoint(s, 1, 3), Keypoint(s, 7, 4), Keypoint(s, 1, 5))
\* both body lines 45 degrees off the vertical
PoseLeaning(s) ==
    Pose(Keypoint(s, 5, 1), Keypoint(s, 2, 4), Keypoint(s, 7, 1), Keypoint(s, 4, 4))
\* left line tilted with good scores, right line with a weak hip
PoseLeftOnly(s, weak) ==
    Pose(Keypoint(s, 4, 0), Keypoint(s, 3, 6), Keypoint(s, 6, 0), Keypoint(weak, 5, 6))
\* left body line exactly horizontal, right body line about 9.5 degrees off
\* the vertical
PoseTwisted(s) ==
    Pose(Keypoint(s, 7, 3), Keypoint(s, 1, 3), Keypoint(s, 6, 0), Keypoint(s, 5, 6))
\* an upright pose in the coordinates of a transposed (6 x 8) image
PoseInRotated(s) ==
    Pose(Keypoint(s, 2, 1), Keypoint(s, 2, 6), Keypoint(s, 4, 1), Keypoint(s, 4, 6))

Catalogue ==
    [upV    |-> [given |-> <<PoseUprightVertical(800)>>, r90 |-> <<>>, r270 |-> <<>>],
     upT    |-> [given |-> <<PoseUprightTilted(800)>>, r90 |-> <<>>, r270 |-> <<>>],
     flatF  |-> [given |-> <<PoseFlat(900, 700)>>, r90 |-> <<>>, r270 |-> <<>>],
     flatG  |-> [given |-> <<PoseNearlyFlat(1000)>>, r90 |-> <<>>, r270 |-> <<>>],
     lean   |-> [given |-> <<PoseLeaning(800)>>, r90 |-> <<>>, r270 |-> <<>>],
     leftT  |-> [given |-> <<PoseLeftOnly(800, 400)>>, r90 |-> <<>>, r270 |-> <<>>],
     low    |-> [given |-> <<PoseUprightTilted(400)>>,
                 r90   |-> <<PoseInRotated(400)>>,
                 r270  |-> <<PoseInRotated(200)>>],
     zero   |-> [given |-> <<PoseFlat(0, 0)>>,
                 r90   |-> <<PoseInRotated(0)>>,
                 r270  |-> <<PoseInRotated(0)>>],
     rot90  |-> [given |-> <<PoseFlat(400, 400)>>,
                 r90   |-> <<PoseInRotated(800)>>,
                 r270  |-> <<>>],
     rot270 |-> [given |-> <<PoseFlat(400, 400)>>,
                 r90   |-> <<PoseLeftOnly(640, 400)>>,
                 r270  |-> <<PoseInRotated(800)>>],
     twice  |-> [given |-> <<PoseUprightTilted(640)>>,
                 r90   |-> <<PoseInRotated(800)>>,
                 r270  |-> <<>>],
     twist  |-> [given |-> <<PoseTwisted(800)>>, r90 |-> <<>>, r270 |-> <<>>],
     lost   |-> [given |-> <<PoseUprightTilted(400)>>, r90 |-> <<>>, r270 |-> <<>>],
     nobody |-> [given |-> <<>>, r90 |-> <<>>, r270 |-> <<>>]]

Images == DOMAIN Catalogue

\* PoseEngine.DetectPosesInImage(image) on the image transposed by rotation:
\* the poses found and the thumbnail of the image
DetectPosesInImage(img, rotation) ==
    [poses |-> IF rotation = NO_ROTATION THEN Catalogue[img].given
               ELSE IF rotation = ROTATE_90 THEN Catalogue[img].r90
               ELSE Catalogue[img].r270,
     thumbnail |-> img]

----------------------------------------------------------------------------
(* AngleGeometry: calculate_angle *)

\* math.degrees(math.atan(y / x)) for 1 <= x, y <= 8, rounded to 1/1000 degree
ArcTanTable ==
    << <<45000, 26565, 18435, 14036, 11310, 9462, 8130, 7125>>,
       <<63435, 45000, 33690, 26565, 21801, 18435, 15945, 14036>>,
       <<71565, 56310, 45000, 36870, 30964, 26565, 23199, 20556>>,
       <<75964, 63435, 53130, 45000, 38660, 33690, 29745, 26565>>,
       <<78690, 68199, 59036, 51340, 45000, 39806, 35538, 32005>>,
       <<80538, 71565, 63435, 56310, 50194, 45000, 40601, 36870>>,
       <<81870, 74055, 66801, 60255, 54462, 49399, 45000, 41186>>,
       <<82875, 75964, 69444, 63435, 57995, 53130, 48814, 45000>> >>

Abs(v) == IF v < 0 THEN -v ELSE v

\* math.degrees(math.atan2(y, x)), in (-180000, 180000]
Atan2Degrees(y, x) ==
    IF x = 0 THEN (IF y > 0 THEN 90000 ELSE IF y < 0 THEN -90000 ELSE 0)
    ELSE IF y = 0 THEN (IF x > 0 THEN 0 ELSE 180000)
    ELSE LET a == ArcTanTable[Abs(y)][Abs(x)]
         IN  IF x > 0 THEN (IF y > 0 THEN a ELSE -a)
             ELSE (IF y > 0 THEN 180000 - a ELSE a - 180000)

\* the difference of the two headings with its sign
calculate_angle_signed(p) ==
    Atan2Degrees(p[1][2][2] - p[1][1][2], p[1][1][1] - p[1][2][1])
        - Atan2Degrees(p[2][2][2] - p[2][1][2], p[2][1][1] - p[2][2][1])

\* calculate_angle(p): p = <<line, line>>, a line = <<point, point>>
calculate_angle(p) ==
    LET x1 == p[1][1][1]
        y1 == p[1][1][2]
        x2 == p[1][2][1]
        y2 == p[1][2][2]
        x3 == p[2][1][1]
        y3 == p[2][1][2]
        x4 == p[2][2][1]
        y4 == p[2][2][2]
        theta1 == Atan2Degrees(y2 - y1, x1 - x2)
        theta2 == Atan2Degrees(y4 - y3, x3 - x4)
    IN  Abs(theta1 - theta2)

\* all(e in d for e in keys)
HasAll(d, keys) == keys \subseteq DOMAIN d

\* get_line_angles_with_yaxis(pose_dix): <<l_angle, r_angle>>
get_line_angles_with_yaxis(pose_dix) ==
    LET y_axis_corr == << <<0, 0>>, <<0, tensor_image_height>> >>
        leftLine_corr_exist == HasAll(pose_dix, {LEFT_SHOULDER, LEFT_HIP})
        rightLine_corr_exist == HasAll(pose_dix, {RIGHT_SHOULDER, RIGHT_HIP})
        l_angle == IF leftLine_corr_exist
                   THEN calculate_angle(<<y_axis_corr,
                            <<pose_dix[LEFT_SHOULDER], pose_dix[LEFT_HIP]>> >>)
                   ELSE 0
        r_angle == IF rightLine_corr_exist
                   THEN calculate_angle(<<y_axis_corr,
                            <<pose_dix[RIGHT_SHOULDER], pose_dix[RIGHT_HIP]>> >>)
                   ELSE 0
    IN  <<l_angle, r_angle>>

----------------------------------------------------------------------------
(* BodyLineEstimator: estimate_spinalVector_score *)

Min(a, b) == IF a < b THEN a ELSE b
Max(a, b) == IF a > b THEN a ELSE b

\* the estimate keeping every keypoint whose own score exceeds the threshold
estimate_spinalVector_score_per_keypoint(pose, threshold) ==
    LET kp == pose.keypoints
        leftVectorScore == Min(kp[LEFT_SHOULDER].score, kp[LEFT_HIP].score)
        rightVectorScore == Min(kp[RIGHT_SHOULDER].score, kp[RIGHT_HIP].score)
        is_leftVector == leftVectorScore > threshold
        is_rightVector == rightVectorScore > threshold
        keys == {k \in fall_detect_corr : kp[k].score > threshold}
        spinalVectorScore ==
            IF is_leftVector /\ is_rightVector
            THEN (leftVectorScore + rightVectorScore) \div 2
            ELSE IF is_leftVector THEN (leftVectorScore * 9) \div 10
            ELSE IF is_rightVector THEN (rightVectorScore * 9) \div 10
            ELSE 0
    IN  [pose_score |-> spinalVectorScore,
         pose_dix |-> [k \in keys |-> kp[k].yx]]

\* the estimate without the penalty for a single body line
estimate_spinalVector_score_no_penalty(pose, threshold) ==
    LET kp == pose.keypoints
        leftVectorScore == Min(kp[LEFT_SHOULDER].score, kp[LEFT_HIP].score)
        rightVectorScore == Min(kp[RIGHT_SHOULDER].score, kp[RIGHT_HIP].score)
        is_leftVector == leftVectorScore > threshold
        is_rightVector == rightVectorScore > threshold
        keys == (IF is_leftVector THEN {LEFT_SHOULDER, LEFT_HIP} ELSE {})
                \cup (IF is_rightVector THEN {RIGHT_SHOULDER, RIGHT_HIP} ELSE {})
        spinalVectorScore ==
            IF is_leftVector /\ is_rightVector
            THEN (leftVectorScore + rightVectorScore) \div 2
            ELSE IF is_leftVector THEN leftVectorScore
            ELSE IF is_rightVector THEN rightVectorScore
            ELSE 0
    IN  [pose_score |-> spinalVectorScore,
         pose_dix |-> [k \in keys |-> kp[k].yx]]

\* estimate_spinalVector_score(pose) with the detector's threshold:
\* [pose_score, pose_dix]
estimate_spinalVector_score(pose, threshold) ==
    LET kp == pose.keypoints
        leftVectorScore == Min(kp[LEFT_SHOULDER].score, kp[LEFT_HIP].score)
        rightVectorScore == Min(kp[RIGHT_SHOULDER].score, kp[RIGHT_HIP].score)
        is_leftVector == leftVectorScore > threshold
        is_rightVector == rightVectorScore > threshold
        keys == (IF is_leftVector THEN {LEFT_SHOULDER, LEFT_HIP} ELSE {})
                \cup (IF is_rightVector THEN {RIGHT_SHOULDER, RIGHT_HIP} ELSE {})
        spinalVectorScore ==
            IF is_leftVector /\ is_rightVector
            THEN (leftVectorScore + rightVectorScore) \div 2
            ELSE IF is_leftVector THEN (leftVectorScore * 9) \div 10
            ELSE IF is_rightVector THEN (rightVectorScore * 9) \div 10
            ELSE 0
    IN  [pose_score |-> spinalVectorScore,
         pose_dix |-> [k \in keys |-> kp[k].yx]]

----------------------------------------------------------------------------
(* OrientationNormalizer: find_keypoints *)

\* one pass of DetectPosesInImage followed by estimate_spinalVector_score
\* (lines 146-152 and 155-158); poses[0] of an empty list raises IndexError
DetectAndEstimate(img, rotation, threshold, calls) ==
    LET poses == DetectPosesInImage(img, rotation).poses
    IN  IF poses = <<>>
        THEN [raised |-> TRUE, angle |-> rotation, poses |-> poses,
              pose_score |-> 0, pose_dix |-> EmptyDict,
              calls |-> Append(calls, rotation)]
        ELSE LET est == estimate_spinalVector_score(poses[1], threshold)
             IN  [raised |-> FALSE, angle |-> rotation, poses |-> poses,
                  pose_score |-> est.pose_score, pose_dix |-> est.pose_dix,
                  calls |-> Append(calls, rotation)]

\* the loop taking the rotations from the front of the list
RECURSIVE RotationLoopFromFront(_, _, _, _)
RotationLoopFromFront(img, rotations, min_score, cur) ==
    IF cur.raised \/ ~(cur.pose_score < min_score /\ rotations # <<>>)
    THEN cur
    ELSE RotationLoopFromFront(img, Tail(rotations), min_score,
             DetectAndEstimate(img, Head(rotations), min_score, cur.calls))

\* while pose_score < min_score and rotations: angle = rotations.pop() ...
RECURSIVE RotationLoop(_, _, _, _)
RotationLoop(img, rotations, min_score, cur) ==
    IF cur.raised \/ ~(cur.pose_score < min_score /\ rotations # <<>>)
    THEN cur
    ELSE LET angle == rotations[Len(rotations)]
             rest == SubSeq(rotations, 1, Len(rotations) - 1)
         IN  RotationLoop(img, rest, min_score,
                          DetectAndEstimate(img, angle, min_score, cur.calls))

\* image.transpose(angle) of PIL, on the pixel at yx of a width x height
\* image: ROTATE_90 turns the image counter-clockwise, ROTATE_270 clockwise
transpose(yx, angle) ==
    IF angle = ROTATE_90 THEN <<yx[2], (width - 1) - yx[1]>>
    ELSE IF angle = ROTATE_270 THEN <<(height - 1) - yx[2], yx[1]>>
    ELSE yx

\* the back-mappings of the two rotations taken one for the other
RotateBackCrossed(yx, angle) ==
    IF angle = ROTATE_270 THEN <<width - yx[2], yx[1]>>
    ELSE IF angle = ROTATE_90 THEN <<yx[2], height - yx[1]>>
    ELSE yx

\* the coordinates of a keypoint found in a transposed image, in the
\* coordinates of the image as given (lines 168-181)
RotateBack(yx, angle) ==
    IF angle = ROTATE_90 THEN <<width - yx[2], yx[1]>>
    ELSE IF angle = ROTATE_270 THEN <<yx[2], height - yx[1]>>
    ELSE yx

\* a pose not good enough is put where the check of lines 160-165 reads it
GoodPoseCandidateAnyScore(poses, pose_score, min_score) ==
    poses # <<>>

\* lines 160-165: poses and poses[0], and pose_score >= min_score
GoodPoseCandidate(poses, pose_score, min_score) ==
    poses # <<>> /\ pose_score >= min_score

\* the search that tries every orientation and keeps the best score
find_keypoints_highest(img, threshold) ==
    LET order == <<NO_ROTATION, ROTATE_90, ROTATE_270>>
        Try(r) == DetectAndEstimate(img, r, threshold, <<>>)
        best == CHOOSE i \in 1 .. 3 :
                    \A j \in 1 .. 3 :
                        \/ Try(order[j]).pose_score < Try(order[i]).pose_score
                        \/ (Try(order[j]).pose_score = Try(order[i]).pose_score
                              /\ i <= j)
        Keep(last) ==
            LET found == GoodPoseCandidate(last.poses, last.pose_score, threshold)
            IN  [raised |-> Try(NO_ROTATION).raised,
                 pose |-> found,
                 thumbnail |-> DetectPosesInImage(img, NO_ROTATION).thumbnail,
                 pose_score |-> last.pose_score,
                 pose_dix |-> IF found
                              THEN [k \in DOMAIN last.pose_dix |->
                                       RotateBack(last.pose_dix[k], last.angle)]
                              ELSE last.pose_dix,
                 angle |-> last.angle,
                 calls |-> order]
    IN  Keep(Try(order[best]))

\* find_keypoints(image): pose (found or None), thumbnail, pose_score, pose_dix
find_keypoints(img, threshold) ==
    LET min_score == threshold
        rotations == <<ROTATE_270, ROTATE_90>>
        first == DetectAndEstimate(img, NO_ROTATION, threshold, <<>>)
        \* lines 160-189, last being the state the while loop ended in
        AfterLoop(last) ==
            LET found == ~last.raised
                         /\ GoodPoseCandidate(last.poses, last.pose_score,
                                              min_score)
            IN  [raised |-> last.raised,
                 pose |-> found,
                 thumbnail |-> DetectPosesInImage(img, NO_ROTATION).thumbnail,
                 pose_score |-> last.pose_score,
                 pose_dix |-> IF found
                              THEN [k \in DOMAIN last.pose_dix |->
                                       RotateBack(last.pose_dix[k], last.angle)]
                              ELSE last.pose_dix,
                 angle |-> last.angle,
                 calls |-> last.calls]
    IN  AfterLoop(RotationLoop(img, rotations, min_score, first))

----------------------------------------------------------------------------
(* TemporalHistory *)

\* self._prev_data[t] for the Python index t in {-1, -2}
Slot(data, t) == data[Len(data) + 1 + t]

\* the new record is stored and the older one is not shifted out
assign_prev_records_no_shift(data, pose_dix, left_angle_with_yaxis, rigth_angle_with_yaxis, now, thumb, current_body_vector_score) ==
    <<Slot(data, -2),
      [pose_dix |-> pose_dix,
       timestamp |-> now,
       thumbnail |-> thumb,
       left_angle_with_yaxis |-> left_angle_with_yaxis,
       right_angle_with_yaxis |-> rigth_angle_with_yaxis,
       body_vector_score |-> current_body_vector_score]>>

\* the new record is stored in the older slot
assign_prev_records_swapped(data, pose_dix, left_angle_with_yaxis, rigth_angle_with_yaxis, now, thumb, current_body_vector_score) ==
    <<[pose_dix |-> pose_dix,
       timestamp |-> now,
       thumbnail |-> thumb,
       left_angle_with_yaxis |-> left_angle_with_yaxis,
       right_angle_with_yaxis |-> rigth_angle_with_yaxis,
       body_vector_score |-> current_body_vector_score],
      Slot(data, -1)>>

\* assign_prev_records: the new value of _prev_data
assign_prev_records(data, pose_dix, left_angle_with_yaxis, rigth_angle_with_yaxis, now, thumb, current_body_vector_score) ==
    LET curr_data == [pose_dix |-> pose_dix,
                      timestamp |-> now,
                      thumbnail |-> thumb,
                      left_angle_with_yaxis |-> left_angle_with_yaxis,
                      right_angle_with_yaxis |-> rigth_angle_with_yaxis,
                      body_vector_score |-> current_body_vector_score]
    IN  <<Slot(data, -1), curr_data>>

\* the gate that lets every frame through
is_body_line_motion_any(data, left_angle_with_yaxis, rigth_angle_with_yaxis, inx) ==
    TRUE

\* is_body_line_motion_downward(left, right, inx) (Python and/or on floats)
is_body_line_motion_downward(data, left_angle_with_yaxis, rigth_angle_with_yaxis, inx) ==
    LET prev == Slot(data, inx)
        l_angle == /\ Truthy(left_angle_with_yaxis)
                   /\ Truthy(prev.left_angle_with_yaxis)
                   /\ left_angle_with_yaxis > prev.left_angle_with_yaxis
        r_angle == /\ Truthy(rigth_angle_with_yaxis)
                   /\ Truthy(prev.right_angle_with_yaxis)
                   /\ rigth_angle_with_yaxis > prev.right_angle_with_yaxis
    IN  l_angle \/ r_angle

\* the change of angle taken as the smaller of the two sides
find_changes_in_angle_smaller(data, pose_dix, inx) ==
    LET prev == Slot(data, inx).pose_dix
        left_angle ==
            IF HasAll(prev, {LEFT_SHOULDER, LEFT_HIP})
               /\ HasAll(pose_dix, {LEFT_SHOULDER, LEFT_HIP})
            THEN calculate_angle(<< <<prev[LEFT_SHOULDER], prev[LEFT_HIP]>>,
                                    <<pose_dix[LEFT_SHOULDER], pose_dix[LEFT_HIP]>> >>)
            ELSE 0
        right_angle ==
            IF HasAll(prev, {RIGHT_SHOULDER, RIGHT_HIP})
               /\ HasAll(pose_dix, {RIGHT_SHOULDER, RIGHT_HIP})
            THEN calculate_angle(<< <<prev[RIGHT_SHOULDER], prev[RIGHT_HIP]>>,
                                    <<pose_dix[RIGHT_SHOULDER], pose_dix[RIGHT_HIP]>> >>)
            ELSE 0
    IN  Min(left_angle, right_angle)

\* find_changes_in_angle(pose_dix, inx)
find_changes_in_angle(data, pose_dix, inx) ==
    LET prev == Slot(data, inx).pose_dix
        prev_leftLine_corr_exist == HasAll(prev, {LEFT_SHOULDER, LEFT_HIP})
        curr_leftLine_corr_exist == HasAll(pose_dix, {LEFT_SHOULDER, LEFT_HIP})
        prev_rightLine_corr_exist == HasAll(prev, {RIGHT_SHOULDER, RIGHT_HIP})
        curr_rightLine_corr_exist == HasAll(pose_dix, {RIGHT_SHOULDER, RIGHT_HIP})
        left_angle ==
            IF prev_leftLine_corr_exist /\ curr_leftLine_corr_exist
            THEN calculate_angle(<< <<prev[LEFT_SHOULDER], prev[LEFT_HIP]>>,
                                    <<pose_dix[LEFT_SHOULDER], pose_dix[LEFT_HIP]>> >>)
            ELSE 0
        right_angle ==
            IF prev_rightLine_corr_exist /\ curr_rightLine_corr_exist
            THEN calculate_angle(<< <<prev[RIGHT_SHOULDER], prev[RIGHT_HIP]>>,
                                    <<pose_dix[RIGHT_SHOULDER], pose_dix[RIGHT_HIP]>> >>)
            ELSE 0
    IN  Max(left_angle, right_angle)

----------------------------------------------------------------------------
(* FallDecisionEngine: fall_detect *)

\* inference_result is None, or a list of detections
NoneResult == [is_none |-> TRUE, list |-> <<>>]
ListResult(l) == [is_none |-> FALSE, list |-> l]

\* the tuple ('FALL', fall_score, box, leaning_angle, pose_dix)
FallEvent(fall_score, leaning_angle, pose_dix) ==
    [label |-> "FALL", score |-> fall_score, box |-> <<0, 0, 1, 1>>,
     leaning_angle |-> leaning_angle, keypoints |-> pose_dix]

\* the gate without the test of the slot's age
NoRecentPoseAnyAge(data, now, t) ==
    Slot(data, t).pose_dix = EmptyDict

\* the slot at index t fails the time-validity gate (line 363)
NoRecentPose(data, now, t) ==
    LET lapse == now - Slot(data, t).timestamp
    IN  Slot(data, t).pose_dix = EmptyDict \/ lapse > max_time_between_frames

\* the score without the leaning probability
FallScoreWithoutLeaning(data, threshold, pose_dix, t, current_body_vector_score) ==
    (Slot(data, t).body_vector_score + current_body_vector_score) \div 2

\* the score taken as half the average of the two pose scores
FallScoreHalved(data, threshold, pose_dix, t, current_body_vector_score) ==
    LET leaning_angle == find_changes_in_angle(data, pose_dix, t)
        leaning_probability == IF leaning_angle > fall_factor THEN 1 ELSE 0
    IN  (leaning_probability
           * (Slot(data, t).body_vector_score + current_body_vector_score)) \div 4

\* fall_score of the current frame against the slot at index t (lines 368-374)
FallScore(data, threshold, pose_dix, t, current_body_vector_score) ==
    LET leaning_angle == find_changes_in_angle(data, pose_dix, t)
        leaning_probability == IF leaning_angle > fall_factor THEN 1 ELSE 0
    IN  (leaning_probability
           * (Slot(data, t).body_vector_score + current_body_vector_score)) \div 2

\* the loop without its break: every qualifying slot appends an event
RECURSIVE CompareWithHistoryNoBreak(_, _, _, _, _, _, _, _)
CompareWithHistoryNoBreak(data, threshold, now, pose_dix, left_angle_with_yaxis, rigth_angle_with_yaxis, current_body_vector_score, ts) ==
    IF ts = <<>> THEN <<>>
    ELSE LET t == Head(ts)
             rest == CompareWithHistoryNoBreak(data, threshold, now, pose_dix,
                         left_angle_with_yaxis, rigth_angle_with_yaxis,
                         current_body_vector_score, Tail(ts))
         IN  IF NoRecentPose(data, now, t) THEN rest
             ELSE IF ~is_body_line_motion_downward(data, left_angle_with_yaxis,
                                                   rigth_angle_with_yaxis, t)
             THEN rest
             ELSE LET leaning_angle == find_changes_in_angle(data, pose_dix, t)
                      fall_score == FallScore(data, threshold, pose_dix, t,
                                              current_body_vector_score)
                  IN  IF fall_score >= threshold
                      THEN <<FallEvent(fall_score, leaning_angle, pose_dix)>>
                           \o rest
                      ELSE rest

\* for t in [-1, -2]: ... break  (lines 360-383); ts is what is left of
\* the list, the result is the inference_result list
RECURSIVE CompareWithHistory(_, _, _, _, _, _, _, _)
CompareWithHistory(data, threshold, now, pose_dix, left_angle_with_yaxis, rigth_angle_with_yaxis, current_body_vector_score, ts) ==
    IF ts = <<>> THEN <<>>
    ELSE LET t == Head(ts)
             rest == CompareWithHistory(data, threshold, now, pose_dix,
                         left_angle_with_yaxis, rigth_angle_with_yaxis,
                         current_body_vector_score, Tail(ts))
         IN  IF NoRecentPose(data, now, t) THEN rest
             ELSE IF ~is_body_line_motion_downward(data, left_angle_with_yaxis,
                                                   rigth_angle_with_yaxis, t)
             THEN rest
             ELSE LET leaning_angle == find_changes_in_angle(data, pose_dix, t)
                      fall_score == FallScore(data, threshold, pose_dix, t,
                                              current_body_vector_score)
                  IN  IF fall_score >= threshold
                      THEN <<FallEvent(fall_score, leaning_angle, pose_dix)>>
                      ELSE rest

\* the gate measured against the older slot
TooSoonAgainstOlderSlot(data, now) ==
    LET lapse == now - Slot(data, -2).timestamp
    IN  Slot(data, -2).pose_dix # EmptyDict /\ lapse < min_time_between_frames

\* the slots oldest first
HistoryOrderOldestFirst == <<-2, -1>>

\* for t in [-1, -2] (line 360)
HistoryOrder == <<-1, -2>>

\* the gate that also rejects a frame exactly min_time_between_frames later
TooSoonInclusive(data, now) ==
    LET lapse == now - Slot(data, -1).timestamp
    IN  Slot(data, -1).pose_dix # EmptyDict /\ lapse <= min_time_between_frames

\* no frame is too soon
TooSoonNever(data, now) == FALSE

\* the too-soon gate of line 337
TooSoon(data, now) ==
    LET lapse == now - Slot(data, -1).timestamp
    IN  Slot(data, -1).pose_dix # EmptyDict /\ lapse < min_time_between_frames

\* fall_detect shifting slot t-1 into slot t-2 before the search for a pose
fall_detect_shift_first(data, threshold, img, now) ==
    IF img = NoneImage
    THEN [raised |-> TRUE, inference_result |-> NoneResult,
          thumbnail |-> NoneImage, prev_data |-> data, calls |-> <<>>]
    ELSE IF TooSoon(data, now)
    THEN [raised |-> FALSE, inference_result |-> NoneResult,
          thumbnail |-> Slot(data, -1).thumbnail, prev_data |-> data,
          calls |-> <<>>]
    ELSE LET WithKeypoints(fk) ==
                 IF fk.raised
                 THEN [raised |-> TRUE, inference_result |-> NoneResult,
                       thumbnail |-> NoneImage,
                       prev_data |-> <<Slot(data, -1), Slot(data, -1)>>,
                       calls |-> fk.calls]
                 ELSE IF ~fk.pose
                 THEN [raised |-> FALSE, inference_result |-> NoneResult,
                       thumbnail |-> fk.thumbnail, prev_data |-> data,
                       calls |-> fk.calls]
                 ELSE LET angles == get_line_angles_with_yaxis(fk.pose_dix)
                          result == CompareWithHistory(data, threshold, now,
                                        fk.pose_dix, angles[1], angles[2],
                                        fk.pose_score, HistoryOrder)
                      IN  [raised |-> FALSE,
                           inference_result |-> ListResult(result),
                           thumbnail |-> fk.thumbnail,
                           prev_data |-> assign_prev_records(data, fk.pose_dix,
                                             angles[1], angles[2], now,
                                             fk.thumbnail, fk.pose_score),
                           calls |-> fk.calls]
         IN  WithKeypoints(find_keypoints(img, threshold))

\* fall_detect(image) called when time.monotonic() is now: whether it raised,
\* what it returned, the value it leaves in _prev_data and the engine calls made
fall_detect(data, threshold, img, now) ==
    IF img = NoneImage
    THEN [raised |-> TRUE, inference_result |-> NoneResult,
          thumbnail |-> NoneImage, prev_data |-> data, calls |-> <<>>]
    ELSE IF TooSoon(data, now)
    THEN [raised |-> FALSE, inference_result |-> NoneResult,
          thumbnail |-> Slot(data, -1).thumbnail, prev_data |-> data,
          calls |-> <<>>]
    ELSE LET \* lines 347-392, fk being what find_keypoints returned
             WithKeypoints(fk) ==
                 IF fk.raised
                 THEN [raised |-> TRUE, inference_result |-> NoneResult,
                       thumbnail |-> NoneImage, prev_data |-> data,
                       calls |-> fk.calls]
                 ELSE IF ~fk.pose
                 THEN [raised |-> FALSE, inference_result |-> NoneResult,
                       thumbnail |-> fk.thumbnail, prev_data |-> data,
                       calls |-> fk.calls]
                 ELSE LET current_body_vector_score == fk.pose_score
                          angles == get_line_angles_with_yaxis(fk.pose_dix)
                          left_angle_with_yaxis == angles[1]
                          rigth_angle_with_yaxis == angles[2]
                          result == CompareWithHistory(data, threshold, now,
                                        fk.pose_dix, left_angle_with_yaxis,
                                        rigth_angle_with_yaxis,
                                        current_body_vector_score, HistoryOrder)
                      IN  [raised |-> FALSE,
                           inference_result |-> ListResult(result),
                           thumbnail |-> fk.thumbnail,
                           prev_data |-> assign_prev_records(data, fk.pose_dix,
                                             left_angle_with_yaxis,
                                             rigth_angle_with_yaxis, now,
                                             fk.thumbnail,
                                             current_body_vector_score),
                           calls |-> fk.calls]
         IN  WithKeypoints(find_keypoints(img, threshold))

----------------------------------------------------------------------------
(* AmbianicServer (src/ambianic/server.py).  Time is in half seconds, the   *)
(* length of the watchdog's time.sleep(0.5).                                *)

\* MAIN_HEARTBEAT_LOG_INTERVAL = 5 (seconds)
MAIN_HEARTBEAT_LOG_INTERVAL == 10

\* time.sleep(0.5)
WatchdogSleep == 1

\* the keys of ROOT_SERVERS, in the order of the dict
ROOT_SERVERS == <<"pipelines", "web">>

\* the calls of start(): the one of the main thread, and the one
\* on_config_change makes
Invocations == {"main", "restart"}

\* one iteration of the watchdog (sleep and _healthcheck) takes WatchdogSleep,
\* or up to MaxStall more when the thread is held up
IterationTimes == {WatchdogSleep, WatchdogSleep + MaxStall}

\* elapsed times are counted up to these values and no further
HeartbeatCap == MAIN_HEARTBEAT_LOG_INTERVAL + 1
LoopingCap == MAIN_HEARTBEAT_LOG_INTERVAL + WatchdogSleep + MaxStall + 1

\* AmbianicServer.__init__, and what is known of each call of start()
ServerConstructed ==
    [_service_exit_requested |-> FALSE,
     \* time.monotonic() - self._latest_heartbeat
     since_latest_heartbeat |-> 0,
     \* the call of start() whose servers self._servers holds
     _servers |-> "none",
     config_manager |-> "stopped",
     \* where each call of start() is
     pc |-> [i \in Invocations |-> "not_called"],
     \* the local dict servers of each call: the names started so far
     servers |-> [i \in Invocations |-> <<>>],
     \* the managed servers started and not stopped, as <<call, name>>
     running |-> {},
     \* the time left of the iteration of a call that sleeps
     wake_in |-> [i \in Invocations |-> 0],
     \* 'Main thread alive.' was logged by the call
     heartbeat_logged |-> [i \in Invocations |-> FALSE],
     \* the time since the call entered its watchdog loop
     looping_for |-> [i \in Invocations |-> 0],
     \* stop() was called since the call of start() began
     stop_called_since |-> [i \in Invocations |-> FALSE],
     \* the call stopped the config manager on its way out
     stopped_config_manager |-> [i \in Invocations |-> FALSE]]

----------------------------------------------------------------------------
(* The state machine *)

\* the thresholds the detector is configured with in this model
Thresholds == {0, 600}

\* the seconds after construction at which samples arrive: a first burst,
\* and a second one once max_time_between_frames have passed
Instants == (0 .. 2) \cup ((max_time_between_frames + 1) .. MaxTime)

\* no method is called on its own
NoCall == [op |-> "none", args |-> <<>>, returned |-> FALSE, ret |-> <<>>]

\* FallDetector.__init__
Init ==
    /\ clock = 0
    /\ confidence_threshold \in Thresholds
    /\ prev_data = <<InitialRecord, InitialRecord>>
    /\ image = NoneImage
    /\ yielded = "nothing"
    /\ inference_result = NoneResult
    /\ thumbnail = NoneImage
    /\ pose_engine_calls = <<>>
    /\ applied = NoCall
    /\ server = ServerConstructed

\* time passes until the next sample arrives at second t; nothing of the
\* last call is left but the history
Tick(t) ==
    /\ t > clock
    /\ clock' = t
    /\ image' = NoneImage
    /\ yielded' = "nothing"
    /\ inference_result' = NoneResult
    /\ thumbnail' = NoneImage
    /\ pose_engine_calls' = <<>>
    /\ UNCHANGED <<confidence_threshold, prev_data, applied, server>>

\* process_sample(image=img): the sample is processed and passed on, or an
\* exception is caught and the sample dropped
process_sample(img) ==
    \E r \in {fall_detect(prev_data, confidence_threshold, img, clock)} :
        /\ image' = img
        /\ yielded' = IF r.raised THEN "dropped" ELSE "processed_sample"
        /\ inference_result' = r.inference_result
        /\ thumbnail' = r.thumbnail
        /\ prev_data' = r.prev_data
        /\ pose_engine_calls' = r.calls
        /\ UNCHANGED <<clock, confidence_threshold, applied, server>>

\* process_sample() with an empty sample: None is passed on
process_empty_sample ==
    /\ image' = NoneImage
    /\ yielded' = "None"
    /\ inference_result' = NoneResult
    /\ thumbnail' = NoneImage
    /\ pose_engine_calls' = <<>>
    /\ UNCHANGED <<clock, confidence_threshold, prev_data, applied, server>>

Next ==
    \/ \E t \in Instants : Tick(t)
    \/ \E img \in Images \cup {NoneImage} : process_sample(img)
    \/ process_empty_sample

Spec == Init /\ [][Next]_vars

\* time.monotonic() keeps growing, up to the last instant
SpecTimePasses ==
    /\ Init
    /\ [][Next]_vars
    /\ WF_vars(\E t \in Instants : Tick(t))

----------------------------------------------------------------------------
(* The methods without side effect, each called on its own with arguments  *)
(* drawn from a bounded set                                                *)

\* the state of the detector a method called on its own leaves alone
detector == <<clock, prev_data, image, yielded, inference_result, thumbnail,
              pose_engine_calls>>

\* a call that has not returned yet
Call(op, args) == [op |-> op, args |-> args, returned |-> FALSE, ret |-> <<>>]

\* the points and the lines (pairs of points) calculate_angle is called with
Points == (0 .. MaxCoord) \X (0 .. MaxCoord)
Lines == Points \X Points

\* the scores the engine gives a keypoint, in thousandths
KeypointScores == {0, 400, 600, 620, 800}

\* the poses estimate_spinalVector_score is called with: the four keypoints
\* with every combination of scores
ScoredPoses ==
    {Pose(Keypoint(ls, 4, 0), Keypoint(lh, 3, 6),
          Keypoint(rs, 6, 0), Keypoint(rh, 5, 6)) :
        ls \in KeypointScores, lh \in KeypointScores,
        rs \in KeypointScores, rh \in KeypointScores}

\* shoulder-hip lines: vertical, tilted, horizontal either way, leaning; and
\* no line, for a side the keypoint set does not hold
BodyLines ==
    {<< <<3, 1>>, <<3, 5>> >>, << <<4, 0>>, <<3, 6>> >>,
     << <<1, 3>>, <<7, 3>> >>, << <<7, 3>>, <<1, 3>> >>,
     << <<5, 1>>, <<2, 4>> >>}
NoLine == <<>>

\* the keypoint set (pose_dix) with the given left and right body lines
KeypointSet(left, right) ==
    [k \in (IF left # NoLine THEN {LEFT_SHOULDER, LEFT_HIP} ELSE {})
           \cup (IF right # NoLine THEN {RIGHT_SHOULDER, RIGHT_HIP} ELSE {}) |->
        IF k = LEFT_SHOULDER THEN left[1]
        ELSE IF k = LEFT_HIP THEN left[2]
        ELSE IF k = RIGHT_SHOULDER THEN right[1]
        ELSE right[2]]

KeypointSets ==
    {KeypointSet(left, right) :
        left \in BodyLines \cup {NoLine}, right \in BodyLines \cup {NoLine}}

\* _prev_data with the keypoint set d in the slot at Python index inx
HistoryWith(d, inx) ==
    IF inx = -1 THEN <<InitialRecord, [InitialRecord EXCEPT !.pose_dix = d]>>
    ELSE <<[InitialRecord EXCEPT !.pose_dix = d], InitialRecord>>

\* the calls made: p of calculate_angle(p) is a pair of lines; the arguments
\* of find_changes_in_angle are the keypoint set of the slot, pose_dix, inx
Calls ==
    {Call("calculate_angle", p) : p \in Lines \X Lines}
    \cup {Call("estimate_spinalVector_score", pose) : pose \in ScoredPoses}
    \cup {Call("find_changes_in_angle", <<slot_dix, pose_dix, inx>>) :
             slot_dix \in KeypointSets, pose_dix \in KeypointSets,
             inx \in {-1, -2}}

\* a detector as constructed, and a call about to be made
InitCall ==
    /\ clock = 0
    /\ confidence_threshold \in Thresholds
    /\ prev_data = <<InitialRecord, InitialRecord>>
    /\ image = NoneImage
    /\ yielded = "nothing"
    /\ inference_result = NoneResult
    /\ thumbnail = NoneImage
    /\ pose_engine_calls = <<>>
    /\ applied \in Calls
    /\ server = ServerConstructed

\* the call returns ret
Return(ret) ==
    /\ ~applied.returned
    /\ applied' = [applied EXCEPT !.returned = TRUE, !.ret = ret]
    /\ UNCHANGED <<confidence_threshold, detector, server>>

\* calculate_angle(p)
apply_calculate_angle ==
    /\ applied.op = "calculate_angle"
    /\ Return(calculate_angle(applied.args))

\* estimate_spinalVector_score(pose)
apply_estimate_spinalVector_score ==
    /\ applied.op = "estimate_spinalVector_score"
    /\ Return(estimate_spinalVector_score(applied.args, confidence_threshold))

\* find_changes_in_angle(pose_dix, inx)
apply_find_changes_in_angle ==
    /\ applied.op = "find_changes_in_angle"
    /\ Return(find_changes_in_angle(
                  HistoryWith(applied.args[1], applied.args[3]),
                  applied.args[2], applied.args[3]))

NextCall ==
    \/ apply_calculate_angle
    \/ apply_estimate_spinalVector_score
    \/ apply_find_changes_in_angle

SpecCall == InitCall /\ [][NextCall]_vars

----------------------------------------------------------------------------
(* AmbianicServer: start(), its watchdog loop, stop(), on_config_change()   *)

\* what the server's actions leave alone
others == <<confidence_threshold, detector, applied>>

\* the call i of start() is in its watchdog loop
InLoop(srv, i) == srv.pc[i] = "sleep"

\* d half seconds pass
Advance(srv, d) ==
    [srv EXCEPT
        !.since_latest_heartbeat = Min(@ + d, HeartbeatCap),
        !.looping_for = [i \in Invocations |->
                            IF InLoop(srv, i) THEN Min(@[i] + d, LoopingCap)
                            ELSE @[i]],
        !.wake_in = [i \in Invocations |->
                        IF InLoop(srv, i) THEN Max(@[i] - d, 0) ELSE @[i]]]

\* stop(): self._service_exit_requested = True
Stopped(srv) ==
    [srv EXCEPT !._service_exit_requested = TRUE,
                !.stop_called_since = [i \in Invocations |-> TRUE]]

\* the beginning of start() (lines 201-212): _configure stops the config
\* manager and loads the configuration, and the callback is added
Started(srv, i) ==
    [srv EXCEPT !.config_manager = "loaded",
                !.pc[i] = "start_servers",
                !.stop_called_since[i] = FALSE]

\* the main thread calls start()
start(i) ==
    /\ i = "main"
    /\ server.pc[i] = "not_called"
    /\ server' = Started(server, i)
    /\ UNCHANGED others

\* one turn of the for loop of start(): srv = s_class(); srv.start()
start_server(i) ==
    /\ server.pc[i] = "start_servers"
    /\ Len(server.servers[i]) < Len(ROOT_SERVERS)
    /\ LET s_name == ROOT_SERVERS[Len(server.servers[i]) + 1]
       IN  server' = [server EXCEPT
                         !.servers[i] = Append(@, s_name),
                         !.running = @ \cup {<<i, s_name>>}]
    /\ UNCHANGED others

\* lines 220-225: the loop is entered; its first iteration will take d
enter_watchdog(i, d) ==
    /\ server.pc[i] = "start_servers"
    /\ Len(server.servers[i]) = Len(ROOT_SERVERS)
    /\ server' = [server EXCEPT
                     !.since_latest_heartbeat = 0,
                     !._servers = i,
                     !.pc[i] = "sleep",
                     !.wake_in[i] = d,
                     !.looping_for[i] = 0]
    /\ UNCHANGED others

\* time passes while every thread that runs start() sleeps, until the first
\* of them is due
time_passes ==
    /\ \E i \in Invocations : InLoop(server, i)
    /\ \A i \in Invocations :
          \/ server.pc[i] \in {"not_called", "returned"}
          \/ InLoop(server, i) /\ server.wake_in[i] > 0
    /\ LET due == CHOOSE d \in 1 .. (WatchdogSleep + MaxStall) :
                      /\ \E i \in Invocations :
                            InLoop(server, i) /\ server.wake_in[i] = d
                      /\ \A i \in Invocations :
                            InLoop(server, i) => server.wake_in[i] >= d
       IN  server' = Advance(server, due)
    /\ UNCHANGED others

\* the heartbeat that never asks the loop to end
HeartbeatNeverRaises(srv) == FALSE

\* line 181: if self._service_exit_requested: raise ServiceExit
HeartbeatRaises(srv) == srv._service_exit_requested

\* line 176: new_time - self._latest_heartbeat > MAIN_HEARTBEAT_LOG_INTERVAL
HeartbeatLogged(srv, i) ==
    srv.since_latest_heartbeat > MAIN_HEARTBEAT_LOG_INTERVAL

\* _heartbeat() at the end of an iteration of the loop; the next iteration,
\* if there is one, will take d
_heartbeat(i, d) ==
    /\ InLoop(server, i)
    /\ server.wake_in[i] = 0
    /\ server' = [server EXCEPT
                     !.heartbeat_logged[i] = @ \/ HeartbeatLogged(server, i),
                     !.since_latest_heartbeat = 0,
                     !.pc[i] = IF HeartbeatRaises(server)
                               THEN "service_exit" ELSE "sleep",
                     !.wake_in[i] = IF HeartbeatRaises(server) THEN 0 ELSE d]
    /\ UNCHANGED others

\* except ServiceExit: self._stop_servers(servers); return True
_stop_servers(i) ==
    /\ server.pc[i] = "service_exit"
    /\ server' = [server EXCEPT
                     !.running = {r \in @ : r[1] # i},
                     !.config_manager = "stopped",
                     !.stopped_config_manager[i] = TRUE,
                     !.pc[i] = "returned"]
    /\ UNCHANGED others

\* stop()
stop ==
    /\ server' = Stopped(server)
    /\ UNCHANGED others

\* the sections of the configuration a change can be in
Sections == {"data_dir", "sources"}

\* on_config_change(event), the callback added by start(): for a change of
\* 'data_dir', self.stop() and self.start()
on_config_change(section_name) ==
    /\ server.config_manager = "loaded"
    /\ server.pc["restart"] = "not_called"
    /\ server' = IF section_name \in {"data_dir"}
                 THEN Started(Stopped(server), "restart")
                 ELSE server
    /\ UNCHANGED others

\* the steps of the thread that runs the call i of start()
Thread(i) ==
    \/ start_server(i)
    \/ \E d \in IterationTimes : enter_watchdog(i, d)
    \/ \E d \in IterationTimes : _heartbeat(i, d)
    \/ _stop_servers(i)

NextServer ==
    \/ \E i \in Invocations : start(i)
    \/ \E i \in Invocations : Thread(i)
    \/ time_passes
    \/ stop
    \/ \E section_name \in Sections : on_config_change(section_name)

SpecServer == Init /\ [][NextServer]_vars

\* the threads keep running and time keeps passing
SpecServerLive ==
    /\ Init
    /\ [][NextServer]_vars
    /\ WF_vars(time_passes)
    /\ \A i \in Invocations : WF_vars(Thread(i))

----------------------------------------------------------------------------
(* Properties *)

\* a step in which fall_detect is called with a frame (an image of the camera)
FrameArrives == clock' = clock /\ image' \in Images

\* the three orientations find_keypoints can try
Orientations == {NO_ROTATION, ROTATE_90, ROTATE_270}

\* the frame arrives too soon after the frame held in slot t-1
ArrivesTooSoon ==
    /\ FrameArrives
    /\ Slot(prev_data, -1).pose_dix # EmptyDict
    /\ clock' - Slot(prev_data, -1).timestamp < min_time_between_frames

\* C1: a frame that arrives less than min_time_between_frames after the
\* non-empty pose of slot t-1 makes no call of the pose engine, returns None
\* with the thumbnail stored in slot t-1 and leaves both slots unchanged.
C1_TooSoonGate ==
    [][ArrivesTooSoon =>
          /\ pose_engine_calls' = <<>>
          /\ yielded' = "processed_sample"
          /\ inference_result' = NoneResult
          /\ thumbnail' = Slot(prev_data, -1).thumbnail
          /\ prev_data' = prev_data]_vars

\* a frame with another image than the one in slot t-1 was rejected as too soon
C1_Witness ==
    /\ yielded = "processed_sample"
    /\ image \in Images
    /\ Slot(prev_data, -1).pose_dix # EmptyDict
    /\ clock - Slot(prev_data, -1).timestamp < min_time_between_frames
    /\ pose_engine_calls = <<>>
    /\ inference_result = NoneResult
    /\ thumbnail = Slot(prev_data, -1).thumbnail
    /\ thumbnail # image

\* the frame passes the too-soon gate and find_keypoints returns a pose
PoseAccepted ==
    /\ FrameArrives
    /\ ~ArrivesTooSoon
    /\ ~find_keypoints(image', confidence_threshold).raised
    /\ find_keypoints(image', confidence_threshold).pose

\* C2: a frame that passes the too-soon gate and yields a pose with
\* pose_score >= confidence_threshold is pushed into the history once: slot
\* t-2 becomes the old slot t-1 and slot t-1 holds the frame's keypoints,
\* timestamp, thumbnail, angles with the vertical and pose score.
C2_AcceptedFramePushed ==
    [][PoseAccepted =>
          LET fk == find_keypoints(image', confidence_threshold)
              angles == get_line_angles_with_yaxis(fk.pose_dix)
          IN  /\ Len(prev_data') = 2
              /\ Slot(prev_data', -2) = Slot(prev_data, -1)
              /\ Slot(prev_data', -1) =
                    [pose_dix |-> fk.pose_dix,
                     timestamp |-> clock',
                     thumbnail |-> image',
                     left_angle_with_yaxis |-> angles[1],
                     right_angle_with_yaxis |-> angles[2],
                     body_vector_score |-> fk.pose_score]
              /\ fk.pose_score >= confidence_threshold]_vars

\* a frame was pushed on top of an earlier frame without a fall being reported
C2_Witness ==
    /\ yielded = "processed_sample"
    /\ inference_result = ListResult(<<>>)
    /\ Slot(prev_data, -1).thumbnail = image
    /\ Slot(prev_data, -1).timestamp = clock
    /\ Slot(prev_data, -2).pose_dix # EmptyDict
    /\ Slot(prev_data, -2).timestamp < clock

\* no orientation of the image yields a pose that meets the threshold
NoUsablePose(img, threshold) ==
    \A rotation \in Orientations :
        LET poses == DetectPosesInImage(img, rotation).poses
        IN  /\ poses # <<>>
            /\ estimate_spinalVector_score(poses[1], threshold).pose_score
                  < threshold

\* C3: when no orientation yields a pose with pose_score >=
\* confidence_threshold, fall_detect returns None and leaves both slots
\* unchanged.
C3_NoPoseNoUpdate ==
    [][(FrameArrives /\ NoUsablePose(image', confidence_threshold)) =>
          /\ yielded' = "processed_sample"
          /\ inference_result' = NoneResult
          /\ prev_data' = prev_data]_vars

\* a frame without a usable pose was tried in all three orientations while
\* slot t-1 held an older pose
C3_Witness ==
    /\ yielded = "processed_sample"
    /\ image \in Images
    /\ NoUsablePose(image, confidence_threshold)
    /\ pose_engine_calls = <<NO_ROTATION, ROTATE_90, ROTATE_270>>
    /\ inference_result = NoneResult
    /\ Slot(prev_data, -1).pose_dix # EmptyDict
    /\ Slot(prev_data, -1).thumbnail # image

\* C4: fall_detect returns at most one fall event: None, an empty list or a
\* list of exactly one FALL entry.
C4_AtMostOneFall ==
    /\ Len(inference_result.list) <= 1
    /\ inference_result.is_none => inference_result.list = <<>>
    /\ \A i \in 1 .. Len(inference_result.list) :
          inference_result.list[i].label = "FALL"

\* a fall was reported for a frame while both older slots held a pose not
\* older than max_time_between_frames
C4_Witness ==
    /\ yielded = "processed_sample"
    /\ Len(inference_result.list) = 1
    /\ Slot(prev_data, -2).pose_dix # EmptyDict
    /\ Slot(prev_data, -1).timestamp - Slot(prev_data, -2).timestamp
          < max_time_between_frames

\* the slot at Python index t holds a pose no older than
\* max_time_between_frames when the frame of this step arrives
SlotUsable(t) ==
    /\ Slot(prev_data, t).pose_dix # EmptyDict
    /\ clock' - Slot(prev_data, t).timestamp <= max_time_between_frames

\* the frame of this step was pushed and a list of detections returned
FrameCompared == FrameArrives /\ ~inference_result'.is_none

\* C5: a slot is evidence of a fall only if it holds a non-empty pose and
\* now - slot.timestamp <= max_time_between_frames: every fall event reports
\* the leaning angle against such a slot, and no event is emitted when
\* neither slot is one.
C5_StaleSlotNotUsed ==
    [][(FrameCompared /\ inference_result'.list # <<>>) =>
          \E t \in {-1, -2} :
              /\ SlotUsable(t)
              /\ inference_result'.list[1].leaning_angle =
                    find_changes_in_angle(prev_data,
                        inference_result'.list[1].keypoints, t)]_vars

\* the leaning angle between the poses of two history records
LeaningBetween(older, newer) ==
    find_changes_in_angle(<<older, older>>, newer.pose_dix, -1)

\* a collapsed pose was pushed more than max_time_between_frames after an
\* upright one that it leans away from by more than fall_factor, and no fall
\* was reported
C5_Witness ==
    /\ yielded = "processed_sample"
    /\ inference_result = ListResult(<<>>)
    /\ confidence_threshold > 0
    /\ Slot(prev_data, -2).pose_dix # EmptyDict
    /\ Slot(prev_data, -1).timestamp - Slot(prev_data, -2).timestamp
          > max_time_between_frames
    /\ Slot(prev_data, -2).left_angle_with_yaxis > 0
    /\ Slot(prev_data, -1).left_angle_with_yaxis
          > Slot(prev_data, -2).left_angle_with_yaxis
    /\ LeaningBetween(Slot(prev_data, -2), Slot(prev_data, -1)) > fall_factor

\* the event e reports the comparison of the frame of this step with slot t
EventAgainst(e, t) ==
    /\ e.leaning_angle = find_changes_in_angle(prev_data, e.keypoints, t)
    /\ 2 * e.score = Slot(prev_data, t).body_vector_score
                        + Slot(prev_data', -1).body_vector_score

\* what C6 says of an emitted event
WellFormedFall(e) ==
    /\ e.label = "FALL"
    /\ e.box = <<0, 0, 1, 1>>
    /\ e.keypoints = Slot(prev_data', -1).pose_dix
    /\ e.leaning_angle > fall_factor
    /\ e.score >= confidence_threshold
    /\ \E t \in {-1, -2} : EventAgainst(e, t)

\* C6 as stated: every emitted fall event has leaning_angle > fall_factor and
\* the score (slot.body_vector_score + pose_score) / 2 of the slot it was
\* compared against, with score >= confidence_threshold, label 'FALL', box
\* [0,0,1,1] and the keypoints of the current frame.
C6_AsStated ==
    [][FrameCompared =>
          \A i \in 1 .. Len(inference_result'.list) :
              WellFormedFall(inference_result'.list[i])]_vars

\* C6 amended: the same, for a detector configured with
\* confidence_threshold > 0.
C6_FallEventContent ==
    [][(FrameCompared /\ confidence_threshold > 0) =>
          \A i \in 1 .. Len(inference_result'.list) :
              WellFormedFall(inference_result'.list[i])]_vars

\* a fall was reported by a detector with a positive threshold
C6_Witness ==
    /\ yielded = "processed_sample"
    /\ confidence_threshold > 0
    /\ Len(inference_result.list) = 1
    /\ inference_result.list[1].keypoints = Slot(prev_data, -1).pose_dix
    /\ inference_result.list[1].leaning_angle > fall_factor

\* the frame of this step, compared with slot t, is a fall
Qualifies(t) ==
    LET cur == Slot(prev_data', -1)
    IN  /\ SlotUsable(t)
        /\ is_body_line_motion_downward(prev_data, cur.left_angle_with_yaxis,
                                        cur.right_angle_with_yaxis, t)
        /\ FallScore(prev_data, confidence_threshold, cur.pose_dix, t,
                     cur.body_vector_score) >= confidence_threshold

\* the event of a fall of the frame of this step against slot t
EventOf(t) ==
    LET cur == Slot(prev_data', -1)
    IN  FallEvent(FallScore(prev_data, confidence_threshold, cur.pose_dix, t,
                            cur.body_vector_score),
                  find_changes_in_angle(prev_data, cur.pose_dix, t),
                  cur.pose_dix)

\* C7: the slots are compared most recent first and the loop stops at the
\* first fall: when t-1 gives a fall the event is the one computed against
\* t-1, and t-2 gives the event only when t-1 gave none.
C7_MostRecentFirst ==
    [][FrameCompared =>
          inference_result'.list =
              IF Qualifies(-1) THEN <<EventOf(-1)>>
              ELSE IF Qualifies(-2) THEN <<EventOf(-2)>>
              ELSE <<>>]_vars

\* a fall was reported with the score computed against the former slot t-1,
\* while the two older frames were both recent
C7_Witness ==
    /\ yielded = "processed_sample"
    /\ Len(inference_result.list) = 1
    /\ confidence_threshold > 0
    /\ 2 * inference_result.list[1].score =
          Slot(prev_data, -2).body_vector_score
             + Slot(prev_data, -1).body_vector_score
    /\ inference_result.list[1].leaning_angle =
          LeaningBetween(Slot(prev_data, -2), Slot(prev_data, -1))

\* the keys of the body line of a side
SideKeys(side) ==
    IF side = "left" THEN {LEFT_SHOULDER, LEFT_HIP}
    ELSE {RIGHT_SHOULDER, RIGHT_HIP}

Sides == {"left", "right"}

\* the keypoint set d holds the shoulder and the hip of the side
SidePresent(d, side) == SideKeys(side) \subseteq DOMAIN d

\* the angle with the vertical of the body line of a side that d holds
AngleWithVertical(d, side) ==
    IF side = "left" THEN get_line_angles_with_yaxis(d)[1]
    ELSE get_line_angles_with_yaxis(d)[2]

\* every body line the keypoint set holds is between lo and hi off the
\* vertical, and it holds one at least
BodyLinesBetween(d, lo, hi) ==
    /\ d # EmptyDict
    /\ \A side \in Sides :
          SidePresent(d, side) =>
              /\ AngleWithVertical(d, side) >= lo
              /\ AngleWithVertical(d, side) <= hi

\* an upright pose: 0 to 10 degrees; a collapsed pose: 80 to 90 degrees
Upright(d) == BodyLinesBetween(d, 0, 10000)
Collapsed(d) == BodyLinesBetween(d, 80000, 90000)

\* C8 as stated: when slot t-1 holds an upright pose (0 to 10 degrees, 0
\* included) and a collapsed pose (80 to 90 degrees) is accepted 2 seconds
\* later, both with a pose score above the threshold, the call emits exactly
\* one fall event, with leaning_angle > fall_factor.
C8_UprightThenCollapsed ==
    [][(/\ FrameCompared
        /\ Upright(Slot(prev_data, -1).pose_dix)
        /\ Collapsed(Slot(prev_data', -1).pose_dix)
        /\ clock' - Slot(prev_data, -1).timestamp = 2
        /\ Slot(prev_data, -1).body_vector_score > confidence_threshold
        /\ Slot(prev_data', -1).body_vector_score > confidence_threshold) =>
          /\ Len(inference_result'.list) = 1
          /\ inference_result'.list[1].leaning_angle > fall_factor]_vars

\* C9 as stated: when slot t-1 is empty or stale, slot t-2 holds an upright
\* pose within max_time_between_frames and the current frame is collapsed, a
\* fall is emitted against t-2.
C9_FallAgainstOlderSlot ==
    [][(/\ FrameCompared
        /\ ~SlotUsable(-1)
        /\ SlotUsable(-2)
        /\ Upright(Slot(prev_data, -2).pose_dix)
        /\ Collapsed(Slot(prev_data', -1).pose_dix)) =>
          /\ Len(inference_result'.list) = 1
          /\ inference_result'.list[1].leaning_angle =
                find_changes_in_angle(prev_data, Slot(prev_data', -1).pose_dix, -2)
          /\ inference_result'.list[1].leaning_angle > fall_factor]_vars

\* the downward-motion gate as C10 reads it: on a side that both keypoint
\* sets hold, the angle of the current frame is greater than the slot's
MotionDownwardOnPresentSide(slot_dix, pose_dix) ==
    \E side \in Sides :
        /\ SidePresent(slot_dix, side)
        /\ SidePresent(pose_dix, side)
        /\ AngleWithVertical(pose_dix, side) > AngleWithVertical(slot_dix, side)

\* C10 as stated: the downward-motion gate tells a side without data from a
\* side whose angle was computed as 0: against a usable slot t-1 the gate
\* passes exactly when some side present in both the slot and the current
\* frame has a greater angle in the current frame.
C10_GateTellsAbsentFromZero ==
    [][(FrameCompared /\ SlotUsable(-1)) =>
          (is_body_line_motion_downward(prev_data,
               Slot(prev_data', -1).left_angle_with_yaxis,
               Slot(prev_data', -1).right_angle_with_yaxis, -1)
           <=> MotionDownwardOnPresentSide(Slot(prev_data, -1).pose_dix,
                                           Slot(prev_data', -1).pose_dix))]_vars

\* C11: no fall event is emitted against a slot unless a side that both the
\* slot and the current frame hold has a strictly greater angle with the
\* vertical in the current frame: every event reports the leaning angle
\* against a usable slot with such a side, and when no usable slot has one
\* (equal or smaller angles on every comparable side) no event is emitted.
C11_NoFallWithoutDownwardMotion ==
    [][(FrameCompared /\ inference_result'.list # <<>>) =>
          \E t \in {-1, -2} :
              /\ SlotUsable(t)
              /\ MotionDownwardOnPresentSide(Slot(prev_data, t).pose_dix,
                                             Slot(prev_data', -1).pose_dix)
              /\ inference_result'.list[1].leaning_angle =
                    find_changes_in_angle(prev_data,
                        Slot(prev_data', -1).pose_dix, t)]_vars

\* a frame leaning away from the one before by more than fall_factor was
\* pushed, its body lines on both sides nearer to the vertical than before,
\* and no fall was reported
C11_Witness ==
    /\ yielded = "processed_sample"
    /\ inference_result = ListResult(<<>>)
    /\ confidence_threshold > 0
    /\ Slot(prev_data, -1).timestamp - Slot(prev_data, -2).timestamp
          <= max_time_between_frames
    /\ \A side \in Sides :
          /\ SidePresent(Slot(prev_data, -2).pose_dix, side)
          /\ SidePresent(Slot(prev_data, -1).pose_dix, side)
          /\ AngleWithVertical(Slot(prev_data, -1).pose_dix, side) > 0
          /\ AngleWithVertical(Slot(prev_data, -1).pose_dix, side)
                < AngleWithVertical(Slot(prev_data, -2).pose_dix, side)
    /\ LeaningBetween(Slot(prev_data, -2), Slot(prev_data, -1)) > fall_factor

\* the engine finds a pose in the image transposed by rotation
PoseFoundIn(img, rotation) == DetectPosesInImage(img, rotation).poses # <<>>

\* the spinal-vector score of the first pose the engine finds in the image
\* transposed by rotation
ScoreIn(img, rotation) ==
    estimate_spinalVector_score(DetectPosesInImage(img, rotation).poses[1],
                                confidence_threshold).pose_score

\* the frame of this step is searched in the orientations of order, one at
\* a time from the first: an orientation is tried only after the one before
\* gave a score below the threshold, and the search goes on to the next one
\* whenever the score is below the threshold
SearchedInOrder(order) ==
    LET calls == pose_engine_calls'
    IN  /\ Len(calls) >= 1
        /\ Len(calls) <= Len(order)
        /\ calls = SubSeq(order, 1, Len(calls))
        /\ \A i \in 1 .. (Len(calls) - 1) :
              /\ PoseFoundIn(image', calls[i])
              /\ ScoreIn(image', calls[i]) < confidence_threshold
        /\ (Len(calls) < Len(order) /\ PoseFoundIn(image', calls[Len(calls)]))
              => ScoreIn(image', calls[Len(calls)]) >= confidence_threshold

\* C12 as stated: the engine is run on the image as given, then, while the
\* score is below the threshold, on the image rotated 90 degrees clockwise
\* and then on the image rotated 90 degrees counter-clockwise, three runs at
\* most.
C12_AsStated ==
    [][(FrameArrives /\ ~ArrivesTooSoon) =>
          SearchedInOrder(<<NO_ROTATION, Clockwise90, CounterClockwise90>>)]_vars

\* C12 amended: the engine is run on the image as given, then, while the
\* score is below the threshold, on the image rotated 90 degrees
\* counter-clockwise (ROTATE_90) and then on the image rotated 90 degrees
\* clockwise (ROTATE_270), three runs at most.
C12_SearchOrder ==
    [][(FrameArrives /\ ~ArrivesTooSoon) =>
          SearchedInOrder(<<NO_ROTATION, CounterClockwise90, Clockwise90>>)]_vars

\* a pose was accepted in the third orientation tried
C12_Witness ==
    /\ yielded = "processed_sample"
    /\ image \in Images
    /\ pose_engine_calls = <<NO_ROTATION, ROTATE_90, ROTATE_270>>
    /\ ~inference_result.is_none
    /\ Slot(prev_data, -1).thumbnail = image
    /\ Slot(prev_data, -1).body_vector_score >= confidence_threshold
    /\ confidence_threshold > 0

\* the engine finds in the image transposed by rotation a pose whose score
\* meets the threshold
MeetsThreshold(img, rotation) ==
    /\ PoseFoundIn(img, rotation)
    /\ ScoreIn(img, rotation) >= confidence_threshold

\* C13 as stated: the pose accepted for a frame has the highest score among
\* the orientations (as given, +90, -90) whose pose meets the threshold.
C13_AsStated ==
    [][PoseAccepted =>
          \A rotation \in Orientations :
              MeetsThreshold(image', rotation) =>
                  Slot(prev_data', -1).body_vector_score
                      >= ScoreIn(image', rotation)]_vars

\* the order in which find_keypoints tries the orientations
SearchOrder == <<NO_ROTATION, ROTATE_90, ROTATE_270>>

\* the keypoints find_keypoints returns when it accepts the pose found in
\* the image transposed by rotation
KeypointsFrom(img, rotation) ==
    LET d == estimate_spinalVector_score(
                 DetectPosesInImage(img, rotation).poses[1],
                 confidence_threshold).pose_dix
    IN  [k \in DOMAIN d |-> RotateBack(d[k], rotation)]

\* C13 amended: the pose accepted for a frame is the one of the first
\* orientation, in the order as given, ROTATE_90, ROTATE_270, whose score
\* meets the threshold; a later orientation is not looked at, whatever its
\* score.
C13_FirstOrientationMeetingThreshold ==
    [][PoseAccepted =>
          \E i \in 1 .. Len(SearchOrder) :
              /\ MeetsThreshold(image', SearchOrder[i])
              /\ \A j \in 1 .. (i - 1) :
                    /\ PoseFoundIn(image', SearchOrder[j])
                    /\ ~MeetsThreshold(image', SearchOrder[j])
              /\ pose_engine_calls' = SubSeq(SearchOrder, 1, i)
              /\ Slot(prev_data', -1).body_vector_score
                    = ScoreIn(image', SearchOrder[i])
              /\ Slot(prev_data', -1).pose_dix
                    = KeypointsFrom(image', SearchOrder[i])]_vars

\* with a positive threshold, the pose of the image as given was accepted
\* while the engine finds a pose of a higher score in the image rotated
C13_Witness ==
    /\ yielded = "processed_sample"
    /\ image \in Images
    /\ confidence_threshold > 0
    /\ pose_engine_calls = <<NO_ROTATION>>
    /\ Slot(prev_data, -1).thumbnail = image
    /\ Slot(prev_data, -1).timestamp = clock
    /\ \E rotation \in Orientations :
          /\ PoseFoundIn(image, rotation)
          /\ ScoreIn(image, rotation) > Slot(prev_data, -1).body_vector_score

\* two points no more than one pixel apart in each coordinate
WithinTolerance(p, q) == Abs(p[1] - q[1]) <= 1 /\ Abs(p[2] - q[2]) <= 1

\* the pixels of a width x height image
ImagePoints == (0 .. (width - 1)) \X (0 .. (height - 1))

\* every pixel, transposed and mapped back, is where it was within tolerance,
\* and a pixel of the image as given is left where it is
RoundTripWithinTolerance ==
    \A p \in ImagePoints :
        /\ RotateBack(p, NO_ROTATION) = p
        /\ \A angle \in {ROTATE_90, ROTATE_270} :
              WithinTolerance(RotateBack(transpose(p, angle), angle), p)

\* C14: the keypoints stored for an accepted frame are those the engine
\* found in the orientation that was accepted, mapped back by the inverse of
\* that rotation (unchanged for the image as given): transposed again they
\* fall on the detected keypoints within tolerance; the event reports the
\* stored keypoints; and for every pixel of a width x height image the
\* mapping back undoes the transpose within tolerance.
C14_RotatedPoseMappedBack ==
    [][PoseAccepted =>
          LET angle == pose_engine_calls'[Len(pose_engine_calls')]
              detected == estimate_spinalVector_score(
                              DetectPosesInImage(image', angle).poses[1],
                              confidence_threshold).pose_dix
              stored == Slot(prev_data', -1).pose_dix
          IN  /\ DOMAIN stored = DOMAIN detected
              /\ \A k \in DOMAIN stored :
                    IF angle = NO_ROTATION THEN stored[k] = detected[k]
                    ELSE WithinTolerance(transpose(stored[k], angle),
                                         detected[k])
              /\ \A i \in 1 .. Len(inference_result'.list) :
                    inference_result'.list[i].keypoints = stored
              /\ RoundTripWithinTolerance]_vars

\* a fall was reported for a pose found in a rotated image, with the
\* keypoints stored in slot t-1
C14_Witness ==
    /\ yielded = "processed_sample"
    /\ image \in Images
    /\ Len(pose_engine_calls) > 1
    /\ Slot(prev_data, -1).thumbnail = image
    /\ Slot(prev_data, -1).timestamp = clock
    /\ Slot(prev_data, -1).pose_dix # EmptyDict
    /\ Len(inference_result.list) = 1
    /\ inference_result.list[1].keypoints = Slot(prev_data, -1).pose_dix
    /\ inference_result.list[1].keypoints
          # estimate_spinalVector_score(
                DetectPosesInImage(image,
                    pose_engine_calls[Len(pose_engine_calls)]).poses[1],
                confidence_threshold).pose_dix

\* the method op, called on its own, has returned
Returned(op) == applied.op = op /\ applied.returned

\* the smaller of the scores of the shoulder and the hip of a side of pose
SideScore(pose, side) ==
    LET shoulder == IF side = "left" THEN LEFT_SHOULDER ELSE RIGHT_SHOULDER
        hip == IF side = "left" THEN LEFT_HIP ELSE RIGHT_HIP
    IN  IF pose.keypoints[shoulder].score < pose.keypoints[hip].score
        THEN pose.keypoints[shoulder].score
        ELSE pose.keypoints[hip].score

\* C15: with leftScore and rightScore the smaller score of the shoulder and
\* the hip of each side, estimate_spinalVector_score returns the average of
\* the two when both exceed the threshold, 0.9 times the score of the one
\* that exceeds it when a single one does, and 0 with an empty keypoint set
\* when none does.
C15_SpinalVectorScore ==
    Returned("estimate_spinalVector_score") =>
        LET leftScore == SideScore(applied.args, "left")
            rightScore == SideScore(applied.args, "right")
            left == leftScore > confidence_threshold
            right == rightScore > confidence_threshold
            pose_score == applied.ret.pose_score
        IN  /\ (left /\ right) => 2 * pose_score = leftScore + rightScore
            /\ (left /\ ~right) => 10 * pose_score = 9 * leftScore
            /\ (~left /\ right) => 10 * pose_score = 9 * rightScore
            /\ (~left /\ ~right) =>
                  pose_score = 0 /\ applied.ret.pose_dix = EmptyDict

\* the single body line of a pose exceeds the threshold and the penalty
\* brings the pose score below it
C15_Witness ==
    /\ Returned("estimate_spinalVector_score")
    /\ SideScore(applied.args, "left") > confidence_threshold
    /\ SideScore(applied.args, "right") <= confidence_threshold
    /\ applied.ret.pose_score > 0
    /\ applied.ret.pose_score < confidence_threshold

\* the keypoint set d holds the shoulder of a side iff it holds its hip
SideAllOrNothing(d, side) ==
    \/ SideKeys(side) \subseteq DOMAIN d
    \/ SideKeys(side) \cap DOMAIN d = {}

\* the keypoint set d, produced for the image img, holds a side only if in
\* the orientation d was taken from the smaller score of the shoulder and
\* the hip of that side exceeds the threshold
SidesThresholdGated(d, img) ==
    (\E side \in Sides : SideKeys(side) \cap DOMAIN d # {}) =>
        /\ img \in Images
        /\ \E rotation \in Orientations :
              /\ PoseFoundIn(img, rotation)
              /\ d = KeypointsFrom(img, rotation)
              /\ \A side \in Sides :
                    SidePresent(d, side) =>
                        SideScore(DetectPosesInImage(img, rotation).poses[1],
                                  side) > confidence_threshold

\* C16: in both history slots and in the keypoint set of every event, a body
\* line is all or nothing (the shoulder of a side iff its hip) and a side is
\* held only if the smaller of its shoulder and hip scores is strictly
\* greater than the threshold.
C16_SidesAllOrNothing ==
    /\ \A t \in {-1, -2} :
          /\ \A side \in Sides :
                SideAllOrNothing(Slot(prev_data, t).pose_dix, side)
          /\ SidesThresholdGated(Slot(prev_data, t).pose_dix,
                                 Slot(prev_data, t).thumbnail)
    /\ \A i \in 1 .. Len(inference_result.list) :
          /\ \A side \in Sides :
                SideAllOrNothing(inference_result.list[i].keypoints, side)
          /\ SidesThresholdGated(inference_result.list[i].keypoints, image)

\* slot t-1 holds the left body line alone of a pose whose right shoulder
\* exceeds the threshold and whose right hip does not
C16_Witness ==
    /\ yielded = "processed_sample"
    /\ image \in Images
    /\ Slot(prev_data, -1).thumbnail = image
    /\ pose_engine_calls = <<NO_ROTATION>>
    /\ DOMAIN Slot(prev_data, -1).pose_dix = SideKeys("left")
    /\ Catalogue[image].given[1].keypoints[RIGHT_SHOULDER].score
          > confidence_threshold
    /\ Catalogue[image].given[1].keypoints[RIGHT_HIP].score
          <= confidence_threshold

\* the angle between the body lines of a side in the keypoint sets d and e
\* when both hold the side, and 0 otherwise
SideDelta(d, e, side) ==
    LET shoulder == IF side = "left" THEN LEFT_SHOULDER ELSE RIGHT_SHOULDER
        hip == IF side = "left" THEN LEFT_HIP ELSE RIGHT_HIP
    IN  IF SidePresent(d, side) /\ SidePresent(e, side)
        THEN calculate_angle(<< <<d[shoulder], d[hip]>>,
                                <<e[shoulder], e[hip]>> >>)
        ELSE 0

\* C17: the leaning angle against a slot is the greater of the left and the
\* right angle deltas, the delta of a side being the angle between the
\* slot's line and the current line when both keypoint sets hold the side's
\* shoulder and hip, and 0 otherwise; it is 0 when no side is comparable.
C17_LeaningAngle ==
    Returned("find_changes_in_angle") =>
        LET left == SideDelta(applied.args[1], applied.args[2], "left")
            right == SideDelta(applied.args[1], applied.args[2], "right")
        IN  /\ applied.ret = IF left > right THEN left ELSE right
            /\ (\A side \in Sides :
                    ~(SidePresent(applied.args[1], side)
                      /\ SidePresent(applied.args[2], side)))
                  => applied.ret = 0

\* against slot t-2, both sides are comparable and the leaning angle is the
\* delta of the right side, greater than fall_factor and than the left delta
C17_Witness ==
    /\ Returned("find_changes_in_angle")
    /\ applied.args[3] = -2
    /\ \A side \in Sides :
          /\ SidePresent(applied.args[1], side)
          /\ SidePresent(applied.args[2], side)
    /\ SideDelta(applied.args[1], applied.args[2], "left") > 0
    /\ SideDelta(applied.args[1], applied.args[2], "left")
          < SideDelta(applied.args[1], applied.args[2], "right")
    /\ applied.ret = SideDelta(applied.args[1], applied.args[2], "right")
    /\ applied.ret > fall_factor

\* C18: calculate_angle gives the same angle when its two lines are swapped,
\* and 0 for two identical lines.
C18_AngleCommutative ==
    Returned("calculate_angle") =>
        /\ applied.ret = calculate_angle(<<applied.args[2], applied.args[1]>>)
        /\ applied.args[1] = applied.args[2] => applied.ret = 0

\* the angle between two lines, the first with the smaller heading, is the
\* difference of the headings taken positive, and more than 90 degrees
C18_Witness ==
    /\ Returned("calculate_angle")
    /\ applied.args[1] # applied.args[2]
    /\ Atan2Degrees(applied.args[1][2][2] - applied.args[1][1][2],
                    applied.args[1][1][1] - applied.args[1][2][1])
          < Atan2Degrees(applied.args[2][2][2] - applied.args[2][1][2],
                         applied.args[2][1][1] - applied.args[2][2][1])
    /\ applied.ret > 90000

\* the search for a pose in the frame of this step ends in an exception: the
\* engine returns an empty list of poses for an orientation that is tried
SearchFails ==
    /\ FrameArrives
    /\ ~ArrivesTooSoon
    /\ \E i \in 1 .. Len(SearchOrder) :
          /\ ~PoseFoundIn(image', SearchOrder[i])
          /\ \A j \in 1 .. (i - 1) :
                /\ PoseFoundIn(image', SearchOrder[j])
                /\ ~MeetsThreshold(image', SearchOrder[j])

\* the step leaves both slots as they were, or shifts slot t-1 into slot t-2
\* and stores the whole record of the frame in slot t-1
UnchangedOrShifted ==
    \/ prev_data' = prev_data
    \/ /\ Slot(prev_data', -2) = Slot(prev_data, -1)
       /\ Slot(prev_data', -1).timestamp = clock'
       /\ Slot(prev_data', -1).thumbnail = image'

C20_NoPoseIsNormal ==
    [][(/\ FrameArrives
        /\ ~ArrivesTooSoon
        /\ (SearchFails \/ NoUsablePose(image', confidence_threshold))) =>
          /\ yielded' = "processed_sample"
          /\ inference_result'.list = <<>>
          /\ prev_data' = prev_data]_vars

----------------------------------------------------------------------------
(* AmbianicServer: shutdown, restart, heartbeat                             *)

\* the managed servers the call i of start() started that are still running
RunningOf(i) == {r \in server.running : r[1] = i}

\* the call i of start() has returned with everything it started stopped
ShutDown(i) ==
    /\ server.pc[i] = "returned"
    /\ RunningOf(i) = {}
    /\ server.stopped_config_manager[i]

\* C21: once stop() has been called while start() is in its watchdog loop,
\* the heartbeat that ends the current iteration raises ServiceExit, and
\* start() goes on to stop every managed server it started and the config
\* manager, and returns; whenever start() has returned, none of the managed
\* servers it started is running.
C21_ShutdownStopsEverything ==
    /\ [][\A i \in Invocations :
              ( /\ InLoop(server, i)
                /\ server._service_exit_requested
                /\ server'.pc[i] # server.pc[i] )
              => server'.pc[i] = "service_exit"]_vars
    /\ \A i \in Invocations :
          (InLoop(server, i) /\ server._service_exit_requested) ~> ShutDown(i)
    /\ [](\A i \in Invocations : server.pc[i] = "returned" => ShutDown(i))

\* start() has returned after it had started every managed server
C21_Witness ==
    \E i \in Invocations :
        /\ ShutDown(i)
        /\ Len(server.servers[i]) = Len(ROOT_SERVERS)
        /\ server._service_exit_requested

\* C22: after stop() followed by start(), the watchdog loop of the new
\* start() keeps running until a further stop() is requested: a loop is
\* only ever left after a stop() that was called since its start() began.
C22_RestartKeepsRunning ==
    [][\A i \in Invocations :
          (InLoop(server, i) /\ server'.pc[i] = "service_exit")
          => server.stop_called_since[i]]_vars

\* C23: a watchdog loop that has been iterating for longer than
\* MAIN_HEARTBEAT_LOG_INTERVAL plus one iteration has logged
\* 'Main thread alive.' at least once.
C23_HeartbeatLogged ==
    \A i \in Invocations :
        ( /\ InLoop(server, i)
          /\ server.looping_for[i]
                > MAIN_HEARTBEAT_LOG_INTERVAL + WatchdogSleep + MaxStall )
        => server.heartbeat_logged[i]

----------------------------------------------------------------------------
(* The history: spacing, validity of the slots, scores                      *)

\* the history slots by their Python index
SlotIndexes == {-1, -2}

\* C24: in every reachable state timestamp(t-2) <= timestamp(t-1), and when
\* both slots hold a non-empty pose the two timestamps are at least
\* min_time_between_frames apart.
C24_HistorySpacing ==
    /\ Slot(prev_data, -2).timestamp <= Slot(prev_data, -1).timestamp
    /\ ( /\ Slot(prev_data, -2).pose_dix # EmptyDict
         /\ Slot(prev_data, -1).pose_dix # EmptyDict )
       => Slot(prev_data, -1).timestamp - Slot(prev_data, -2).timestamp
             >= min_time_between_frames

\* a frame was pushed exactly min_time_between_frames after the frame
\* before it, both with a non-empty pose
C24_Witness ==
    /\ yielded = "processed_sample"
    /\ ~inference_result.is_none
    /\ Slot(prev_data, -1).timestamp = clock
    /\ Slot(prev_data, -2).pose_dix # EmptyDict
    /\ Slot(prev_data, -1).pose_dix # EmptyDict
    /\ Slot(prev_data, -1).timestamp - Slot(prev_data, -2).timestamp
          = min_time_between_frames

\* C25: with confidence_threshold > 0, at every frame, if slot t-2 holds a
\* non-empty pose no older than max_time_between_frames then so does slot
\* t-1; so a fall is emitted against t-2 only when t-1 passed the
\* time-validity gate and failed the downward-motion gate or the fall-score
\* test.
C25_OlderSlotValidOnlyWithNewer ==
    [][(FrameArrives /\ confidence_threshold > 0) =>
          /\ SlotUsable(-2) => SlotUsable(-1)
          /\ (FrameCompared /\ inference_result'.list # <<>> /\ ~Qualifies(-1))
             => /\ inference_result'.list = <<EventOf(-2)>>
                /\ SlotUsable(-1)]_vars

\* a fall was reported with a positive threshold although the frame does not
\* lean further from the vertical than the frame before it, on any side
C25_Witness ==
    /\ yielded = "processed_sample"
    /\ confidence_threshold > 0
    /\ Len(inference_result.list) = 1
    /\ Slot(prev_data, -2).pose_dix # EmptyDict
    /\ Slot(prev_data, -1).timestamp - Slot(prev_data, -2).timestamp
          <= max_time_between_frames
    /\ ~is_body_line_motion_downward(<<Slot(prev_data, -2), Slot(prev_data, -2)>>,
                                     Slot(prev_data, -1).left_angle_with_yaxis,
                                     Slot(prev_data, -1).right_angle_with_yaxis,
                                     -1)

\* C26: every history slot that holds a non-empty pose has
\* body_vector_score >= confidence_threshold, and every frame stored had a
\* pose score that met the threshold.
C26_StoredScoresMeetThreshold ==
    /\ [](\A t \in SlotIndexes :
            Slot(prev_data, t).pose_dix # EmptyDict
            => Slot(prev_data, t).body_vector_score >= confidence_threshold)
    /\ [][prev_data' # prev_data =>
            Slot(prev_data', -1).body_vector_score >= confidence_threshold]_vars

\* both slots hold a pose, one of them with a single body line and the score
\* lowered for it, with a positive threshold
C26_Witness ==
    /\ confidence_threshold > 0
    /\ \A t \in SlotIndexes : Slot(prev_data, t).pose_dix # EmptyDict
    /\ \E t \in SlotIndexes :
          /\ ~SidePresent(Slot(prev_data, t).pose_dix, "right")
          /\ Slot(prev_data, t).body_vector_score < 800

----------------------------------------------------------------------------
(* The fall-score test                                                      *)

\* the loop of the frame of this step reaches slot t, which passes the
\* time-validity and the downward-motion gates
PassesGates(t) ==
    /\ t = -2 => ~Qualifies(-1)
    /\ SlotUsable(t)
    /\ is_body_line_motion_downward(prev_data,
           Slot(prev_data', -1).left_angle_with_yaxis,
           Slot(prev_data', -1).right_angle_with_yaxis, t)

\* the leaning angle of the frame of this step against slot t
LeaningAgainst(t) ==
    find_changes_in_angle(prev_data, Slot(prev_data', -1).pose_dix, t)

\* the event of the frame of this step is emitted at slot t exactly when the
\* leaning angle against it exceeds fall_factor
EmittedIffLeaning(t) ==
    (inference_result'.list = <<EventOf(t)>>) <=> (LeaningAgainst(t) > fall_factor)

\* C27 as stated: for a slot that passes the time-validity and the
\* downward-motion gates, a fall event is emitted if and only if
\* leaning_angle > fall_factor.
C27_AsStated ==
    [][FrameCompared =>
          \A t \in SlotIndexes : PassesGates(t) => EmittedIffLeaning(t)]_vars

\* C27 amended: the same, for a detector configured with
\* confidence_threshold > 0.
C27_EventIffLeaning ==
    [][(FrameCompared /\ confidence_threshold > 0) =>
          \A t \in SlotIndexes : PassesGates(t) => EmittedIffLeaning(t)]_vars

\* with a positive threshold, a frame leaning further from the vertical than
\* the frame before it, by fall_factor at most, was pushed without an event,
\* the frame before it being the only other one
C27_Witness ==
    /\ yielded = "processed_sample"
    /\ confidence_threshold > 0
    /\ inference_result = ListResult(<<>>)
    /\ Slot(prev_data, -2).pose_dix # EmptyDict
    /\ Slot(prev_data, -1).timestamp - Slot(prev_data, -2).timestamp
          <= max_time_between_frames
    /\ is_body_line_motion_downward(<<Slot(prev_data, -2), Slot(prev_data, -2)>>,
                                    Slot(prev_data, -1).left_angle_with_yaxis,
                                    Slot(prev_data, -1).right_angle_with_yaxis,
                                    -1)
    /\ LeaningBetween(Slot(prev_data, -2), Slot(prev_data, -1)) > 0
    /\ LeaningBetween(Slot(prev_data, -2), Slot(prev_data, -1)) <= fall_factor

----------------------------------------------------------------------------
(* The angles                                                               *)

\* C28: calculate_angle returns a value between 0 and 180 degrees, and so
\* does find_changes_in_angle, the leaning angle of an event.
C28_AngleWithinHalfTurn ==
    /\ Returned("calculate_angle") =>
          (applied.ret >= 0 /\ applied.ret <= 180000)
    /\ Returned("find_changes_in_angle") =>
          (applied.ret >= 0 /\ applied.ret <= 180000)

\* the body line of a side is further from the vertical in the keypoint set
\* e than in the keypoint set d
SideMovedDownward(d, e, side) ==
    /\ SidePresent(d, side)
    /\ SidePresent(e, side)
    /\ AngleWithVertical(e, side) > AngleWithVertical(d, side)

\* C29: whenever a fall event is emitted against a slot, a side whose angle
\* delta is the reported leaning angle has, in the current frame, an angle
\* with the vertical strictly greater than the slot's.
C29_LeaningSideMovedDownward ==
    [][(FrameCompared /\ inference_result'.list # <<>>) =>
          \E t \in SlotIndexes :
              /\ PassesGates(t)
              /\ inference_result'.list = <<EventOf(t)>>
              /\ \E side \in Sides :
                    /\ SideDelta(Slot(prev_data, t).pose_dix,
                                 Slot(prev_data', -1).pose_dix, side)
                          = inference_result'.list[1].leaning_angle
                    /\ SideMovedDownward(Slot(prev_data, t).pose_dix,
                                         Slot(prev_data', -1).pose_dix, side)]_vars

----------------------------------------------------------------------------
(* The too-soon gate and the stream of frames                               *)

\* the last call was given a frame and rejected it as too soon
RejectedTooSoon ==
    /\ yielded = "processed_sample"
    /\ image \in Images
    /\ pose_engine_calls = <<>>

\* the last call was given a frame and ran the pose engine on it
RanInference ==
    /\ image \in Images
    /\ pose_engine_calls # <<>>

\* C30: a frame rejected as too soon, or without a usable pose, leaves the
\* history and so timestamp(t-1) as they are; a frame that arrives at least
\* min_time_between_frames after the last frame pushed runs inference,
\* whatever was rejected in between; so a frame is only ever rejected as too
\* soon less than min_time_between_frames after the last frame pushed, and
\* after a frame was rejected, as time passes, the gate opens again for the
\* frames that arrive.
C30_TooSoonAgainstLastPushed ==
    /\ [][(FrameArrives /\ (ArrivesTooSoon \/ inference_result'.is_none)) =>
            prev_data' = prev_data]_vars
    /\ [][( /\ FrameArrives
            /\ clock' - Slot(prev_data, -1).timestamp
                  >= min_time_between_frames ) =>
            pose_engine_calls' # <<>>]_vars
    /\ [](RejectedTooSoon =>
            /\ Slot(prev_data, -1).pose_dix # EmptyDict
            /\ clock - Slot(prev_data, -1).timestamp < min_time_between_frames)
    /\ (RejectedTooSoon /\ clock < MaxTime) ~> ~TooSoon(prev_data, clock)

\* a frame without a usable pose ran inference more than
\* min_time_between_frames after the last frame pushed, whose timestamp it
\* left alone
C30_Witness ==
    /\ RanInference
    /\ yielded = "processed_sample"
    /\ inference_result.is_none
    /\ Slot(prev_data, -1).pose_dix # EmptyDict
    /\ Slot(prev_data, -2).pose_dix # EmptyDict
    /\ clock - Slot(prev_data, -1).timestamp > min_time_between_frames

====
